---- MODULE Spec2Model ----
(***************************************************************************)
(* Model of analyze.py: the multi-scale fractal voice analysis pipeline.   *)
(*                                                                         *)
(* Reals are modelled in fixed point.  A feature value (HFD, DFA, mean,    *)
(* standard deviation, threshold) is a record [nan, v]: nan says the float *)
(* is NaN, v is the value in hundredths.  Window sizes are in hundredths   *)
(* of a second (100 = 1 s).  A time stamp i / sr is kept as its sample     *)
(* offset i; sr is fixed for a run.  The regression slope both estimators  *)
(* return is not computed: where the code returns a finite slope the model *)
(* draws it from a small set; where the code takes a logarithm of zero or  *)
(* fits an empty vector the model follows the code's failure.              *)
(***************************************************************************)
EXTENDS Integers, Sequences, FiniteSets, TLC

VARIABLES
    pc,               \* position of main(): "main", "load", "analyze", "threshold",
                      \* "classify", "save_csv", "plot", "retro", "report", "done", "exit"
    exit_code,        \* -1 while running, 0 on normal return, 1 after sys.exit(1)
    error,            \* the exception that ended the run, or "none"
    signal,           \* samples loaded by librosa.load
    sr,               \* sample rate of the loaded file
    window_sizes,     \* analyze_audio's window_sizes argument
    results,          \* analyze_audio's results: [time, hfd, dfa]
    size_idx,         \* index in window_sizes of the size being scanned
    offset,           \* offset i of the next window of the scan
    window_samples,   \* window_samples of the size being scanned
    step_samples,     \* step_samples of the size being scanned
    dfa_call,         \* the last vectorized_dfa call: [N, segments], segments: scale -> count
    hfd_threshold,    \* adaptive_threshold's results
    dfa_threshold,
    classifications,  \* classify_voice's result
    min_length,       \* min_length as computed by classify_voice, -1 before
    csv,              \* [written, rows]: the CSV file
    plot,             \* [written, points]: the plot file
    log,              \* the milestones logged so far, in order
    retro             \* retroactive_analysis: [done, min_length, total_duration,
                      \* segment_indices], segment_indices: per segment, the indices selected

vars == <<pc, exit_code, error, signal, sr, window_sizes, results, size_idx, offset,
          window_samples, step_samples, dfa_call, hfd_threshold, dfa_threshold,
          classifications, min_length, csv, plot, log, retro>>

-----------------------------------------------------------------------------
(* Bounds of the model. *)

SignalLen == 34
ShortLen == 28
LongLen == 80
SampleRate == 24
LowSampleRate == 10
FlatFrom == 8
MaxLen == 6

-----------------------------------------------------------------------------
(* Arithmetic. *)

Min(a, b) == IF a <= b THEN a ELSE b

Abs(a) == IF a < 0 THEN 0 - a ELSE a

RECURSIVE SeqSum(_)
SeqSum(s) == IF s = <<>> THEN 0 ELSE Head(s) + SeqSum(Tail(s))

RECURSIVE SqrtSearch(_, _, _)
SqrtSearch(x, lo, hi) ==
    IF lo >= hi THEN lo
    ELSE LET mid == (lo + hi + 1) \div 2
         IN  IF mid * mid <= x THEN SqrtSearch(x, mid, hi)
             ELSE SqrtSearch(x, lo, mid - 1)

\* np.sqrt, truncated to the fixed-point grid
ISqrt(x) == SqrtSearch(x, 0, x)

SetMin(S) == CHOOSE x \in S : \A y \in S : x <= y

NaN == [nan |-> TRUE, v |-> 0]

Fin(x) == [nan |-> FALSE, v |-> x]

\* float comparison a > b: False when either side is NaN
FGt(a, b) == ~a.nan /\ ~b.nan /\ a.v > b.v

AnyNaN(s) == \E j \in 1..Len(s) : s[j].nan

Vals(s) == [j \in 1..Len(s) |-> s[j].v]

\* np.mean: NaN for an empty array or one holding a NaN
Mean(s) ==
    IF Len(s) = 0 \/ AnyNaN(s) THEN NaN
    ELSE Fin(SeqSum(Vals(s)) \div Len(s))

\* np.std: sqrt(mean((x - mean)^2)) = sqrt(n * sum(x^2) - sum(x)^2) / n
Std(s) ==
    IF Len(s) = 0 \/ AnyNaN(s) THEN NaN
    ELSE LET n == Len(s)
             sx == SeqSum(Vals(s))
             sxx == SeqSum([j \in 1..n |-> s[j].v * s[j].v])
         IN  Fin(ISqrt(n * sxx - sx * sx) \div n)

\* a[lo:hi] of Python, 0-based, on a sequence
Slice(s, lo, hi) ==
    LET h == Min(hi, Len(s))
    IN  IF lo >= h THEN <<>> ELSE SubSeq(s, lo + 1, h)

\* the elements of a set of numbers as a sequence
RECURSIVE KeySeq(_)
KeySeq(S) ==
    IF S = {} THEN <<>>
    ELSE LET k == SetMin(S) IN <<k>> \o KeySeq(S \ {k})

\* np.concatenate of the lists a dict holds
RECURSIVE Concat(_, _)
Concat(f, keys) ==
    IF keys = {} THEN <<>>
    ELSE LET k == SetMin(keys) IN f[k] \o Concat(f, keys \ {k})

-----------------------------------------------------------------------------
(* vectorized_higuchi_fd *)

k_max == 10

\* k_range = np.arange(1, min(k_max, N//2) + 1)
k_range(N) == 1..Min(k_max, N \div 2)

\* sum(|x[m+i*k] - x[m+(i-1)*k]|) for i in arange(1, (N-m)//k); w is 1-based
LmkSum(w, k, m) ==
    LET N == Len(w)
        cnt == ((N - m) \div k) - 1
    IN  SeqSum([i \in 1..(IF cnt > 0 THEN cnt ELSE 0) |->
                    Abs(w[m + i * k + 1] - w[m + (i - 1) * k + 1])])

\* Lk[k_idx] = np.mean(Lmk) is zero exactly when every Lmk[m] is zero
LkZero(w, k) == \A m \in 0..(k - 1) : LmkSum(w, k, m) = 0

\* What np.log(Lk) and np.polyfit make of the window:
\*   "empty"      k_range is empty and polyfit raises TypeError
\*   "degenerate" some Lk is zero, log gives -inf and the fit is not finite
\*   "finite"     the slope is a finite number
HfdKind(w) ==
    IF k_range(Len(w)) = {} THEN "empty"
    ELSE IF \E k \in k_range(Len(w)) : LkZero(w, k) THEN "degenerate"
    ELSE "finite"

-----------------------------------------------------------------------------
(* vectorized_dfa *)

scale_lim == <<5, 100>>

\* scales = np.arange(scale_lim[0], min(scale_lim[1], N // 4))
Scales(N, lim) == lim[1]..(Min(lim[2], N \div 4) - 1)

\* segments = N // scale
Segments(N, scale) == N \div scale

\* segment j (0-based) of y = cumsum(x - mean) is y[j*scale:(j+1)*scale]; its
\* linear fit leaves no residual exactly when y is linear there, that is when
\* x is constant on the indices j*scale+1 .. (j+1)*scale-1
SegmentLinear(w, scale, j) ==
    \A t \in (j * scale + 1)..((j + 1) * scale - 1) : w[t + 1] = w[j * scale + 2]

\* F[i] = np.mean(F_scale) is zero exactly when every segment's residual is zero
FZero(w, scale) ==
    \A j \in 0..(Segments(Len(w), scale) - 1) : SegmentLinear(w, scale, j)

DfaKind(w, lim) ==
    IF Scales(Len(w), lim) = {} THEN "empty"
    ELSE IF \E s \in Scales(Len(w), lim) : FZero(w, s) THEN "degenerate"
    ELSE "finite"

\* the scales the call evaluates, each with the number of segments it processes
DfaCall(w, lim) ==
    [N |-> Len(w),
     segments |-> [s \in Scales(Len(w), lim) |-> Segments(Len(w), s)]]

-----------------------------------------------------------------------------
(* Inputs. *)

Ramp(n) == [i \in 1..n |-> i]

Silence(n) == [i \in 1..n |-> 0]

RampFlat(n, r) == [i \in 1..n |-> IF i <= r THEN i ELSE r]

File(samples, rate) == [readable |-> TRUE, samples |-> samples, sr |-> rate]

Unreadable == [readable |-> FALSE, samples |-> <<>>, sr |-> 0]

AudioFiles ==
    { File(Ramp(SignalLen), SampleRate),
      File(Ramp(ShortLen), SampleRate),
      File(RampFlat(SignalLen, FlatFrom), SampleRate),
      File(Silence(SignalLen), SampleRate),
      File(Silence(LongLen), SampleRate),
      File(Ramp(SignalLen), LowSampleRate),
      Unreadable }

\* len(sys.argv)
ArgCounts == {1, 2, 3}

WindowSizeLists ==
    { <<100, 300>>, <<100>>, <<300>>, <<100, 110>>, <<110, 100>>, <<100, 100>>, <<>> }

\* the finite slopes an estimator may return
HfdEstimates == {140, 180}

DfaEstimates == {70}

-----------------------------------------------------------------------------
(* analyze_audio *)

Keys(ws) == {ws[j] : j \in 1..Len(ws)}

EmptyResults(ws) ==
    [time |-> <<>>, hfd |-> [s \in Keys(ws) |-> <<>>], dfa |-> [s \in Keys(ws) |-> <<>>]]

\* window_samples = int(size * sr)
WindowSamples(size, rate) == (size * rate) \div 100

\* step_samples = int(0.1 * sr)
StepSamples(size, rate) == rate \div 10

\* range(0, len(signal) - window_samples + 1, step_samples) holds an offset
HasWindow(n, ws) == n - ws + 1 > 0

\* the first size from index j on whose range holds an offset; Len(ws) + 1 if none
RECURSIVE FirstSize(_, _, _, _)
FirstSize(ws, j, n, rate) ==
    IF j > Len(ws) THEN j
    ELSE IF HasWindow(n, WindowSamples(ws[j], rate)) THEN j
    ELSE FirstSize(ws, j + 1, n, rate)

\* the loop over window_sizes, run from index j to the next window to analyse
ScanFrom(ws, j, n, rate) ==
    LET k == FirstSize(ws, j, n, rate)
        last == IF k <= Len(ws) THEN k ELSE Len(ws)
    IN  [size_idx |-> k,
         window_samples |-> IF last >= j THEN WindowSamples(ws[last], rate) ELSE window_samples,
         step_samples |-> IF last >= j THEN StepSamples(ws[last], rate) ELSE step_samples]

\* if size == window_sizes[0]
AppendsTime(size, ws) == size = ws[1]

Raise(e) == [raised |-> e, value |-> NaN]

Return(x) == [raised |-> "none", value |-> x]

\* np.polyfit on a vector holding -inf gives NaN coefficients or raises
\* LinAlgError, depending on the LAPACK build
HfdOutcomes(w) ==
    CASE HfdKind(w) = "empty" -> {Raise("TypeError")}
      [] HfdKind(w) = "degenerate" -> {Return(NaN), Raise("LinAlgError")}
      [] OTHER -> {Return(Fin(x)) : x \in HfdEstimates}

DfaOutcomes(w) ==
    CASE DfaKind(w, scale_lim) = "empty" -> {Raise("TypeError")}
      [] DfaKind(w, scale_lim) = "degenerate" -> {Return(NaN), Raise("LinAlgError")}
      [] OTHER -> {Return(Fin(x)) : x \in DfaEstimates}

\* except Exception: ... raise, then main's except Exception: sys.exit(1)
Fail(e) ==
    /\ pc' = "exit"
    /\ exit_code' = 1
    /\ error' = e
    /\ log' = Append(log, "error")

\* main with the CSV saved right after the analysis
StageAfter_SaveFirst(stage) ==
    CASE stage = "analyze" -> "save_csv"
      [] stage = "save_csv" -> "threshold"
      [] stage = "threshold" -> "classify"
      [] stage = "classify" -> "plot"
      [] stage = "plot" -> "retro"
      [] stage = "retro" -> "report"
      [] OTHER -> "done"

\* the order of main's calls
StageAfter(stage) ==
    CASE stage = "analyze" -> "threshold"
      [] stage = "threshold" -> "classify"
      [] stage = "classify" -> "save_csv"
      [] stage = "save_csv" -> "plot"
      [] stage = "plot" -> "retro"
      [] stage = "retro" -> "report"
      [] OTHER -> "done"

NoRetro == [done |-> FALSE, min_length |-> 0, total_duration |-> 0, segment_indices |-> <<>>]

Init ==
    /\ pc = "main"
    /\ exit_code = -1
    /\ error = "none"
    /\ signal = <<>>
    /\ sr = 0
    /\ window_sizes = <<>>
    /\ results = EmptyResults(<<>>)
    /\ size_idx = 0
    /\ offset = 0
    /\ window_samples = 0
    /\ step_samples = 0
    /\ dfa_call = [N |-> 0, segments |-> <<>>]
    /\ hfd_threshold = NaN
    /\ dfa_threshold = NaN
    /\ classifications = <<>>
    /\ min_length = -1
    /\ csv = [written |-> FALSE, rows |-> 0]
    /\ plot = [written |-> FALSE, points |-> 0]
    /\ log = <<>>
    /\ retro = NoRetro

\* main: the argument count check
Main ==
    /\ pc = "main"
    /\ \E argc \in ArgCounts :
          IF argc # 2
          THEN Fail("usage")
          ELSE /\ pc' = "load"
               /\ UNCHANGED <<exit_code, error, log>>
    /\ UNCHANGED <<signal, sr, window_sizes, results, size_idx, offset, window_samples,
                   step_samples, dfa_call, hfd_threshold, dfa_threshold, classifications,
                   min_length, csv, plot, retro>>

\* analyze_audio up to the first window: librosa.load, results, the loop headers
Load ==
    /\ pc = "load"
    /\ \E f \in AudioFiles, ws \in WindowSizeLists :
          IF ~f.readable
          THEN /\ Fail("LoadError")
               /\ UNCHANGED <<signal, sr, window_sizes, results, size_idx, offset,
                              window_samples, step_samples>>
          ELSE LET scan == ScanFrom(ws, 1, Len(f.samples), f.sr)
               IN  /\ signal' = f.samples
                   /\ sr' = f.sr
                   /\ window_sizes' = ws
                   /\ results' = EmptyResults(ws)
                   /\ size_idx' = scan.size_idx
                   /\ offset' = 0
                   /\ window_samples' = scan.window_samples
                   /\ step_samples' = scan.step_samples
                   /\ pc' = IF scan.size_idx > Len(ws) THEN StageAfter("analyze") ELSE "analyze"
                   /\ log' = IF scan.size_idx > Len(ws)
                             THEN Append(log, "analysis completed") ELSE log
                   /\ UNCHANGED <<exit_code, error>>
    /\ UNCHANGED <<dfa_call, hfd_threshold, dfa_threshold, classifications, min_length,
                   csv, plot, retro>>

\* one window of analyze_audio's inner loop, and the loop headers up to the next
ScanWindow ==
    /\ pc = "analyze"
    /\ LET size == window_sizes[size_idx]
           window == Slice(signal, offset, offset + window_samples)
       IN  \E h \in HfdOutcomes(window) :
              IF h.raised # "none"
              THEN /\ Fail(h.raised)
                   /\ UNCHANGED <<results, size_idx, offset, window_samples, step_samples,
                                  dfa_call>>
              ELSE \E d \in DfaOutcomes(window) :
                      /\ dfa_call' = DfaCall(window, scale_lim)
                      /\ IF d.raised # "none"
                         THEN /\ Fail(d.raised)
                              /\ UNCHANGED <<results, size_idx, offset, window_samples,
                                             step_samples>>
                         ELSE /\ results' =
                                    [time |-> IF AppendsTime(size, window_sizes)
                                              THEN Append(results.time, offset)
                                              ELSE results.time,
                                     hfd |-> [results.hfd EXCEPT ![size] = Append(@, h.value)],
                                     dfa |-> [results.dfa EXCEPT ![size] = Append(@, d.value)]]
                              /\ IF offset + step_samples + window_samples <= Len(signal)
                                 THEN /\ offset' = offset + step_samples
                                      /\ UNCHANGED <<size_idx, window_samples, step_samples,
                                                     pc, log>>
                                 ELSE LET scan == ScanFrom(window_sizes, size_idx + 1,
                                                           Len(signal), sr)
                                      IN  /\ size_idx' = scan.size_idx
                                          /\ offset' = 0
                                          /\ window_samples' = scan.window_samples
                                          /\ step_samples' = scan.step_samples
                                          /\ pc' = IF scan.size_idx > Len(window_sizes)
                                                   THEN StageAfter("analyze")
                                                   ELSE "analyze"
                                          /\ log' = IF scan.size_idx > Len(window_sizes)
                                                    THEN Append(log, "analysis completed")
                                                    ELSE log
                              /\ UNCHANGED <<exit_code, error>>
    /\ UNCHANGED <<signal, sr, window_sizes, hfd_threshold, dfa_threshold, classifications,
                   min_length, csv, plot, retro>>

-----------------------------------------------------------------------------
(* adaptive_threshold *)

\* mean + 0.25 * std
Threshold(all) ==
    IF Mean(all).nan \/ Std(all).nan THEN NaN
    ELSE Fin(Mean(all).v + Std(all).v \div 4)

\* np.concatenate of an empty list of arrays raises ValueError
AdaptiveThreshold ==
    /\ pc = "threshold"
    /\ IF DOMAIN results.hfd = {}
       THEN /\ Fail("ValueError")
            /\ UNCHANGED <<hfd_threshold, dfa_threshold>>
       ELSE /\ hfd_threshold' = Threshold(Concat(results.hfd, DOMAIN results.hfd))
            /\ dfa_threshold' = Threshold(Concat(results.dfa, DOMAIN results.dfa))
            /\ pc' = StageAfter("threshold")
            /\ log' = Append(log, "thresholds calculated")
            /\ UNCHANGED <<exit_code, error>>
    /\ UNCHANGED <<signal, sr, window_sizes, results, size_idx, offset, window_samples,
                   step_samples, dfa_call, classifications, min_length, csv, plot, retro>>

-----------------------------------------------------------------------------
(* classify_voice *)

window_size == 5

\* hfd_weight = 0.7, dfa_weight = 0.3, the cut 0.5: in tenths
hfd_weight == 7

dfa_weight == 3

ai_cut == 5

\* the variability limits 0.1 and 0.05, in hundredths
hfd_var_limit == 10

dfa_var_limit == 5

\* min(len(results['hfd'][size]) for size in results['hfd'])
MinLength(res) == SetMin({Len(res.hfd[k]) : k \in DOMAIN res.hfd})

\* [series[size][i:i+window_size] for size in series]
Windows(series, i) ==
    LET ks == KeySeq(DOMAIN series)
    IN  [j \in 1..Len(ks) |-> Slice(series[ks[j]], i, i + window_size)]

\* np.mean([np.mean(w) for w in windows])
Avg(windows) == Mean([j \in 1..Len(windows) |-> Mean(windows[j])])

\* np.mean([np.std(w) for w in windows])
Var(windows) == Mean([j \in 1..Len(windows) |-> Std(windows[j])])

\* hfd_ai = (hfd_avg > hfd_threshold) or (hfd_var > 0.1)
HfdAI(res, ht, i) ==
    \/ FGt(Avg(Windows(res.hfd, i)), ht)
    \/ FGt(Var(Windows(res.hfd, i)), Fin(hfd_var_limit))

\* dfa_ai = (dfa_avg > dfa_threshold) or (dfa_var > 0.05)
DfaAI(res, dt, i) ==
    \/ FGt(Avg(Windows(res.dfa, i)), dt)
    \/ FGt(Var(Windows(res.dfa, i)), Fin(dfa_var_limit))

\* a bool in arithmetic
B(b) == IF b THEN 1 ELSE 0

\* is_ai with the two weights exchanged
IsAI_WeightsSwapped(hfd_ai, dfa_ai) ==
    dfa_weight * B(hfd_ai) + hfd_weight * B(dfa_ai) > ai_cut

\* is_ai = (hfd_weight * hfd_ai + dfa_weight * dfa_ai) > 0.5
IsAI(hfd_ai, dfa_ai) == hfd_weight * B(hfd_ai) + dfa_weight * B(dfa_ai) > ai_cut

\* the loop's result for the window starting at i (0-based)
IsAIAt(res, ht, dt, i) == IsAI(HfdAI(res, ht, i), DfaAI(res, dt, i))

\* for i in range(min_length - window_size + 1): classifications.append(is_ai)
Rolling(res, ht, dt) ==
    LET n == MinLength(res) - window_size + 1
    IN  [i \in 1..(IF n > 0 THEN n ELSE 0) |-> IsAIAt(res, ht, dt, i - 1)]

\* padding with the first result instead of the last
PadValue_First(cls) == cls[1]

\* padding one entry short
PadCount_Short == window_size - 2

\* classifications[-1]
PadValue(cls) == cls[Len(cls)]

\* window_size - 1
PadCount == window_size - 1

\* classifications.extend([classifications[-1]] * (window_size - 1))
Padded(cls) == cls \o [j \in 1..PadCount |-> PadValue(cls)]

\* min() of no lengths raises ValueError; classifications[-1] of an empty list
\* raises IndexError
Classify(res, ht, dt) ==
    IF DOMAIN res.hfd = {} THEN Raise("ValueError")
    ELSE IF Rolling(res, ht, dt) = <<>> THEN Raise("IndexError")
    ELSE Return(Padded(Rolling(res, ht, dt)))

ClassifyVoice ==
    /\ pc = "classify"
    /\ LET r == Classify(results, hfd_threshold, dfa_threshold)
       IN  IF r.raised # "none"
           THEN /\ Fail(r.raised)
                /\ min_length' = IF DOMAIN results.hfd = {} THEN min_length
                                 ELSE MinLength(results)
                /\ UNCHANGED classifications
           ELSE /\ classifications' = r.value
                /\ min_length' = MinLength(results)
                /\ pc' = StageAfter("classify")
                /\ log' = Append(log, "classification completed")
                /\ UNCHANGED <<exit_code, error>>
    /\ UNCHANGED <<signal, sr, window_sizes, results, size_idx, offset, window_samples,
                   step_samples, dfa_call, hfd_threshold, dfa_threshold, csv, plot, retro>>

-----------------------------------------------------------------------------
(* save_results_to_csv, plot_results, retroactive_analysis *)

\* min(len(results['time']), len(classifications), *hfd lengths, *dfa lengths)
ConsumerMinLength(res, cls) ==
    SetMin({Len(res.time), Len(cls)}
           \cup {Len(res.hfd[k]) : k \in DOMAIN res.hfd}
           \cup {Len(res.dfa[k]) : k \in DOMAIN res.dfa})

SaveResultsToCsv ==
    /\ pc = "save_csv"
    /\ csv' = [written |-> TRUE, rows |-> ConsumerMinLength(results, classifications)]
    /\ pc' = StageAfter("save_csv")
    /\ log' = Append(log, "results saved")
    /\ UNCHANGED <<exit_code, error, signal, sr, window_sizes, results, size_idx, offset,
                   window_samples, step_samples, dfa_call, hfd_threshold, dfa_threshold,
                   classifications, min_length, plot, retro>>

PlotResults ==
    /\ pc = "plot"
    /\ plot' = [written |-> TRUE, points |-> ConsumerMinLength(results, classifications)]
    /\ pc' = StageAfter("plot")
    /\ log' = Append(log, "plot saved")
    /\ UNCHANGED <<exit_code, error, signal, sr, window_sizes, results, size_idx, offset,
                   window_samples, step_samples, dfa_call, hfd_threshold, dfa_threshold,
                   classifications, min_length, csv, retro>>

\* results['time'][min_length - 1]; index -1 is the last element
TotalDuration(time, ml) == IF ml >= 1 THEN time[ml] ELSE time[Len(time)]

\* segment k of 3 selects (time >= start) & (time < end), with
\* start = (k-1) * total_duration / 3 and end = k * total_duration / 3;
\* both sides are multiplied by 3
SegmentIndices(time, ml, total, k) ==
    {j \in 1..ml : 3 * time[j] >= (k - 1) * total /\ 3 * time[j] < k * total}

RetroactiveAnalysis ==
    /\ pc = "retro"
    /\ LET ml == ConsumerMinLength(results, classifications)
       IN  IF ml = 0 /\ results.time = <<>>
           THEN /\ Fail("IndexError")
                /\ UNCHANGED retro
           ELSE LET total == TotalDuration(results.time, ml)
                IN  /\ retro' = [done |-> TRUE,
                                 min_length |-> ml,
                                 total_duration |-> total,
                                 segment_indices |->
                                     [k \in 1..3 |-> SegmentIndices(results.time, ml, total, k)]]
                    /\ pc' = StageAfter("retro")
                    /\ log' = Append(log, "retroactive analysis completed")
                    /\ UNCHANGED <<exit_code, error>>
    /\ UNCHANGED <<signal, sr, window_sizes, results, size_idx, offset, window_samples,
                   step_samples, dfa_call, hfd_threshold, dfa_threshold, classifications,
                   min_length, csv, plot>>

\* main: the report of the segments and of the overall classification
Report ==
    /\ pc = "report"
    /\ pc' = StageAfter("report")
    /\ exit_code' = 0
    /\ log' = Append(log, "analysis completed successfully")
    /\ UNCHANGED <<error, signal, sr, window_sizes, results, size_idx, offset,
                   window_samples, step_samples, dfa_call, hfd_threshold, dfa_threshold,
                   classifications, min_length, csv, plot, retro>>

Next ==
    \/ Main
    \/ Load
    \/ ScanWindow
    \/ AdaptiveThreshold
    \/ ClassifyVoice
    \/ SaveResultsToCsv
    \/ PlotResults
    \/ RetroactiveAnalysis
    \/ Report

Spec == Init /\ [][Next]_vars

-----------------------------------------------------------------------------
(* classify_voice on its own: the feature series and the thresholds are     *)
(* drawn from bounded sets, as analyze_audio and adaptive_threshold may     *)
(* leave them, and classify_voice is applied to them.                       *)

HfdInputs == {150, 180}

DfaInputs == {70, 78}

HfdThresholds == {160}

DfaThresholds == {72}

\* every series of length n over the values V
SeriesOver(V, n) == [1..n -> {Fin(x) : x \in V}]

\* the series of length n that repeats one value of V
ConstantOver(V, n) == {[j \in 1..n |-> Fin(x)] : x \in V}

TimeAxis(n, rate) == [j \in 1..n |-> (j - 1) * StepSamples(100, rate)]

\* one window size, series of length n
OneSize(n, h, d) ==
    [time |-> TimeAxis(n, SampleRate),
     hfd |-> [s \in {100} |-> h],
     dfa |-> [s \in {100} |-> d]]

\* two window sizes: the larger one's series is one shorter
TwoSizes(n, h, d, hh, dd) ==
    [time |-> TimeAxis(n, SampleRate),
     hfd |-> [s \in {100, 110} |-> IF s = 100 THEN h ELSE hh],
     dfa |-> [s \in {100, 110} |-> IF s = 100 THEN d ELSE dd]]

InitClassify ==
    /\ pc = "classify"
    /\ exit_code = -1
    /\ error = "none"
    /\ signal = <<>>
    /\ sr = SampleRate
    /\ \E n \in 0..MaxLen :
          \E h \in SeriesOver(HfdInputs, n), d \in SeriesOver(DfaInputs, n) :
             \/ results = OneSize(n, h, d)
             \/ /\ n >= 1
                /\ \E hh \in ConstantOver(HfdInputs, n - 1),
                      dd \in ConstantOver(DfaInputs, n - 1) :
                      results = TwoSizes(n, h, d, hh, dd)
    /\ window_sizes = KeySeq(DOMAIN results.hfd)
    /\ size_idx = Len(window_sizes) + 1
    /\ offset = 0
    /\ window_samples = WindowSamples(window_sizes[Len(window_sizes)], sr)
    /\ step_samples = StepSamples(window_sizes[Len(window_sizes)], sr)
    /\ dfa_call = [N |-> 0, segments |-> <<>>]
    /\ hfd_threshold \in {Fin(x) : x \in HfdThresholds}
    /\ dfa_threshold \in {Fin(x) : x \in DfaThresholds}
    /\ classifications = <<>>
    /\ min_length = -1
    /\ csv = [written |-> FALSE, rows |-> 0]
    /\ plot = [written |-> FALSE, points |-> 0]
    /\ log = <<"analysis completed", "thresholds calculated">>
    /\ retro = NoRetro

NextClassify == ClassifyVoice

SpecClassify == InitClassify /\ [][NextClassify]_vars

-----------------------------------------------------------------------------
(* Properties. *)

Logged(m) == \E j \in 1..Len(log) : log[j] = m

\* the offsets range(0, n - ws + 1, step) yields
Positions(n, ws, step) == {i \in 0..(n - ws) : i % step = 0}

Occurrences(ws, size) == Cardinality({j \in 1..Len(ws) : ws[j] = size})

ClassifyReturned == Logged("classification completed")

\* C1: for every set of feature series, whatever the length of the shortest,
\* classify_voice returns a list whose length is minLength, the length of the
\* shortest HFD series.
C1_LengthAlways ==
    min_length >= 0 => (error = "none" /\ Len(classifications) = min_length)

\* C2: in retroactive_analysis every index of the truncated time axis, the last
\* one included, is selected by exactly one of the three segment ranges.
C2_Partition ==
    retro.done =>
        \A j \in 1..retro.min_length :
            Cardinality({k \in 1..3 : j \in retro.segment_indices[k]}) = 1

\* the windows the estimators have been called on so far, as <<index of the
\* size, offset>>
Analysed ==
    {p \in UNION {{<<j, i>> : i \in Positions(Len(signal), WindowSamples(window_sizes[j], sr),
                                              StepSamples(window_sizes[j], sr))} :
                  j \in 1..Len(window_sizes)} :
        \/ p[1] < size_idx
        \/ p[1] = size_idx /\ p[2] < offset
        \/ p[1] = size_idx /\ p[2] = offset /\ error \in {"TypeError", "LinAlgError"}}

WindowAt(p) == Slice(signal, p[2], p[2] + WindowSamples(window_sizes[p[1]], sr))

DegenerateAnalysed ==
    \E p \in Analysed :
        \/ HfdKind(WindowAt(p)) = "degenerate"
        \/ DfaKind(WindowAt(p), scale_lim) = "degenerate"

AnyNaNInResults ==
    \E k \in DOMAIN results.hfd : AnyNaN(results.hfd[k]) \/ AnyNaN(results.dfa[k])

\* C3: once a window that is a constant sub-signal (some Lk or F(s) is zero)
\* has been analysed, the run has ended in an error state: no NaN feature
\* value is kept and no output is written.
C3_DegenerateAborts ==
    DegenerateAnalysed =>
        /\ pc = "exit"
        /\ exit_code = 1
        /\ ~AnyNaNInResults
        /\ ~csv.written
        /\ ~plot.written

\* every window of every configured size has been analysed
AllWindowsScanned ==
    \A k \in DOMAIN results.hfd :
        LET n == Occurrences(window_sizes, k)
                 * Cardinality(Positions(Len(signal), WindowSamples(k, sr), StepSamples(k, sr)))
        IN  Len(results.hfd[k]) = n /\ Len(results.dfa[k]) = n

\* C4: a run that fails on the argument count, on the input file or in an
\* estimator exits with status 1 and has written neither file; the CSV and the
\* plot are written only after analyze_audio (over all windows),
\* adaptive_threshold and classify_voice have completed.
C4_NoPartialOutput ==
    /\ error \in {"usage", "LoadError", "TypeError", "LinAlgError"} =>
          exit_code = 1 /\ ~csv.written /\ ~plot.written
    /\ csv.written \/ plot.written =>
          /\ Logged("analysis completed")
          /\ AllWindowsScanned
          /\ Logged("thresholds calculated")
          /\ ClassifyReturned
          /\ Len(classifications) = min_length

\* a run an estimator ended on one window, after other windows were analysed
C4_Witness ==
    /\ pc = "exit"
    /\ exit_code = 1
    /\ error = "LinAlgError"
    /\ results.time # <<>>
    /\ ~csv.written
    /\ ~plot.written

\* C5: every window size is scanned with the step
\* int(0.1 * smallest window duration * sr), whatever the size being scanned.
C5_StepFromSmallest ==
    pc = "analyze" =>
        step_samples = (SetMin(Keys(window_sizes)) * sr) \div 1000

\* C6: after analyze_audio, results['time'] is strictly increasing and holds
\* exactly the offsets of the window positions of the smallest window size.
C6_TimeAxis ==
    Logged("analysis completed") /\ window_sizes # <<>> =>
        LET small == SetMin(Keys(window_sizes))
            cnt == Cardinality(Positions(Len(signal), WindowSamples(small, sr),
                                         StepSamples(small, sr)))
        IN  /\ results.time = [j \in 1..cnt |-> (j - 1) * StepSamples(small, sr)]
            /\ \A j \in 1..(Len(results.time) - 1) : results.time[j] < results.time[j + 1]

\* C7: every rolling-window entry of the classification is the weighted vote
\* (0.7 * hfdFlag + 0.3 * dfaFlag) > 0.5 of the two flags of its window, and
\* the vote equals hfdFlag for all four combinations of the flags.
C7_WeightedVote ==
    /\ \A h \in BOOLEAN, d \in BOOLEAN : IsAI(h, d) = h
    /\ ClassifyReturned =>
          \A i \in 0..(min_length - window_size) :
              LET h == HfdAI(results, hfd_threshold, i)
                  d == DfaAI(results, dfa_threshold, i)
              IN  /\ classifications[i + 1] = (7 * B(h) + 3 * B(d) > 5)
                  /\ classifications[i + 1] = h

\* a classification in which the two flags disagree both ways
C7_Witness ==
    /\ ClassifyReturned
    /\ \E i, j \in 0..(min_length - window_size) :
          /\ HfdAI(results, hfd_threshold, i) /\ ~DfaAI(results, dfa_threshold, i)
          /\ ~HfdAI(results, hfd_threshold, j) /\ DfaAI(results, dfa_threshold, j)
          /\ classifications[i + 1] /\ ~classifications[j + 1]

\* C8: vectorized_dfa evaluates exactly the scales s with
\* minScale <= s <= min(maxScale, N // 4), both bounds included, and processes
\* N // s segments for each.
C8_ScalesInclusive ==
    dfa_call.N > 0 =>
        /\ DOMAIN dfa_call.segments =
              {s \in scale_lim[1]..scale_lim[2] : s <= Min(scale_lim[2], dfa_call.N \div 4)}
        /\ \A s \in DOMAIN dfa_call.segments : dfa_call.segments[s] = dfa_call.N \div s

\* C9: when minLength >= 5 the list classify_voice returns is the
\* minLength - 4 rolling-window results in index order, followed by 4 entries
\* equal to the result of the window starting at minLength - 5.
C9_Padding ==
    min_length >= window_size =>
        /\ error = "none"
        /\ Len(classifications) = min_length
        /\ \A i \in 1..(min_length - 4) :
              classifications[i] = IsAIAt(results, hfd_threshold, dfa_threshold, i - 1)
        /\ \A i \in (min_length - 3)..min_length :
              classifications[i] =
                  IsAIAt(results, hfd_threshold, dfa_threshold, min_length - 5)

\* a padded list whose first result differs from the padding
C9_Witness ==
    /\ ClassifyReturned
    /\ min_length > window_size
    /\ classifications[1] # classifications[min_length]
    /\ classifications[min_length - 4] = classifications[min_length]

\* C10: in a run in which classify_voice succeeds, the HFD and DFA series of
\* each size have equal length, the time axis and the classification list are
\* not shorter than the shortest HFD series, and so the min_length of
\* save_results_to_csv, plot_results and retroactive_analysis is the one
\* classify_voice used, and results['time'][min_length - 1] exists.
C10_SameMinLength ==
    ClassifyReturned =>
        /\ \A k \in DOMAIN results.hfd : Len(results.hfd[k]) = Len(results.dfa[k])
        /\ min_length = MinLength(results)
        /\ Len(results.time) >= min_length
        /\ Len(classifications) >= min_length
        /\ ConsumerMinLength(results, classifications) = min_length
        /\ min_length >= 1
        /\ csv.written => csv.rows = min_length
        /\ plot.written => plot.points = min_length
        /\ retro.done => retro.min_length = min_length

\* a finished run over two window sizes whose series differ in length
C10_Witness ==
    /\ pc = "done"
    /\ retro.done
    /\ \E a, b \in DOMAIN results.hfd : Len(results.hfd[a]) < Len(results.hfd[b])
    /\ Len(results.time) > min_length

====
